---- MODULE Spec2Model ----
(***************************************************************************)
(* A model of sitemap-crawler.py: SitemapCrawler._fetch_xml, the two       *)
(* extraction methods, crawl_sitemap_index, save_to_csv, print_statistics  *)
(* and main().                                                             *)
(*                                                                         *)
(* Text is a sequence of Unicode code points, so that str.strip,           *)
(* str.startswith, str.split, urljoin, urlparse and the ordering of        *)
(* sorted() are computed rather than assumed.                              *)
(*                                                                         *)
(* An XML document is the sequence, in document order, of its <sitemap>    *)
(* and <url> elements.  Each element is in the sitemap namespace or in no  *)
(* namespace (its children share its namespace, as under a default xmlns   *)
(* declaration) and has an optional <loc> and an optional <lastmod> child. *)
(***************************************************************************)
EXTENDS Integers, Sequences, FiniteSets, TLC

\* ------------------------------------------------------------------ text

\* "/"  (str.split('/'), rstrip('/'), and the path separator of urljoin)
SLASH == 47

\* The characters str.strip() removes: space, \t, \n, \v, \f, \r.
WHITESPACE == {32, 9, 10, 11, 12, 13}

\* "http"
HTTP == <<104, 116, 116, 112>>

\* "sitemap_index.xml"
INDEX_SOURCE == <<115, 105, 116, 101, 109, 97, 112, 95, 105, 110, 100, 101, 120, 46, 120, 109, 108>>

\* "extracted_urls.csv"
OUTPUT_FILE == <<101, 120, 116, 114, 97, 99, 116, 101, 100, 95, 117, 114, 108, 115, 46, 99, 115, 118>>

\* ['url', 'last_modified', 'source_sitemap']
fieldnames == <<"url", "last_modified", "source_sitemap">>

\* str.startswith
StartsWith(s, p) ==
    /\ Len(s) >= Len(p)
    /\ SubSeq(s, 1, Len(p)) = p

\* str.strip(): drop leading and trailing whitespace.
RECURSIVE LStrip(_)
LStrip(s) ==
    IF s # <<>> /\ Head(s) \in WHITESPACE THEN LStrip(Tail(s)) ELSE s

RECURSIVE RStrip(_)
RStrip(s) ==
    IF s # <<>> /\ s[Len(s)] \in WHITESPACE THEN RStrip(SubSeq(s, 1, Len(s) - 1)) ELSE s

Strip(s) == RStrip(LStrip(s))

\* str.rstrip('/')
RECURSIVE RStripSlash(_)
RStripSlash(s) ==
    IF s # <<>> /\ s[Len(s)] = SLASH THEN RStripSlash(SubSeq(s, 1, Len(s) - 1)) ELSE s

Range(f) == {f[k] : k \in DOMAIN f}

\* The positions of character c in s.
Positions(s, c) == {i \in 1..Len(s) : s[i] = c}

Max(S) == CHOOSE x \in S : \A y \in S : y <= x
Min(S) == CHOOSE x \in S : \A y \in S : x <= y

\* The label taken without the split: the whole URL.
LastSegment_Whole(s) == s

\* s.split('/')[-1]: what follows the last "/", the whole of s when it has none.
LastSegment(s) ==
    IF Positions(s, SLASH) = {} THEN s
    ELSE SubSeq(s, Max(Positions(s, SLASH)) + 1, Len(s))

\* Python's str ordering: lexicographic by code point, a proper prefix first.
RECURSIVE StrLess(_, _)
StrLess(a, b) ==
    IF b = <<>> THEN FALSE
    ELSE IF a = <<>> THEN TRUE
    ELSE IF Head(a) # Head(b) THEN Head(a) < Head(b)
    ELSE StrLess(Tail(a), Tail(b))

\* urllib.parse.urljoin(base, url) for a url that has no scheme of its own, no
\* "." or ".." segment, no query and no fragment, and a base that is empty or
\* has the form scheme://netloc[/path].
UrlJoin(base, url) ==
    IF base = <<>> THEN url
    ELSE IF url = <<>> THEN base
    ELSE
        LET dbl == {i \in 1..(Len(base) - 1) : base[i] = SLASH /\ base[i + 1] = SLASH}
            netStart == IF dbl = {} THEN 1 ELSE Min(dbl) + 2
            after == {i \in Positions(base, SLASH) : i >= netStart}
            pathStart == IF after = {} THEN Len(base) + 1 ELSE Min(after)
            origin == SubSeq(base, 1, pathStart - 1)
            dir == IF after = {} THEN <<SLASH>> ELSE SubSeq(base, pathStart, Max(after))
        IN  IF Head(url) = SLASH THEN origin \o url ELSE origin \o dir \o url

\* urllib.parse.urlparse(url).netloc: what lies between the "//" that follows the
\* scheme (or starts the url) and the next "/", "?" or "#".
NetLoc(url) ==
    LET colons == Positions(url, 58)
        isSchemeChar(c) ==
            \/ c \in 97..122
            \/ c \in 65..90
            \/ c \in 48..57
            \/ c \in {43, 45, 46}
        schemeEnd ==
            IF /\ colons # {}
               /\ Min(colons) > 1
               /\ url[1] \in (97..122) \cup (65..90)
               /\ \A i \in 1..(Min(colons) - 1) : isSchemeChar(url[i])
            THEN Min(colons)
            ELSE 0
        rest == SubSeq(url, schemeEnd + 1, Len(url))
        stops == {i \in 3..Len(rest) : rest[i] \in {SLASH, 63, 35}}
    IN  IF StartsWith(rest, <<SLASH, SLASH>>)
        THEN SubSeq(rest, 3, IF stops = {} THEN Len(rest) ELSE Min(stops) - 1)
        ELSE <<>>

\* ------------------------------------------------------------------ XML

\* The result of Element.find: no element (Python's None), or an element with its
\* text.  An element without text (text None) and one with text '' are both
\* falsy in _extract_text and are one value here, the empty text.
NoElem == [present |-> FALSE, text |-> <<>>]
Elem(t) == [present |-> TRUE, text |-> t]

\* SitemapCrawler._extract_text
ExtractText(element) ==
    IF element.present /\ element.text # <<>> THEN Strip(element.text) ELSE <<>>

\* root.findall('.//ns:sitemap/ns:loc', SITEMAP_NS) for ns = TRUE and
\* root.findall('.//sitemap/loc', {}) for ns = FALSE: the <loc> children of the
\* <sitemap> elements of that namespace, in document order.
FindSitemapLocs(root, ns) ==
    LET keep(e) == e.tag = "sitemap" /\ e.ns = ns /\ e.loc.present
        found == SelectSeq(root, keep)
    IN  [i \in 1..Len(found) |-> found[i].loc]

\* root.findall('.//ns:url', SITEMAP_NS) for ns = TRUE, root.findall('.//url', {})
\* for ns = FALSE.
FindUrlElems(root, ns) ==
    LET keep(e) == e.tag = "url" /\ e.ns = ns
    IN  SelectSeq(root, keep)

NonEmpty(t) == t # <<>>

\* The loop of _extract_sitemap_urls over the two xpaths, left by the break as
\* soon as urls is a non-empty list: the list built and the xpaths queried.
SitemapUrlsLoop(root) ==
    LET texts(ns) ==
            LET elements == FindSitemapLocs(root, ns)
            IN  [i \in 1..Len(elements) |-> ExtractText(elements[i])]
        first == texts(TRUE)
    IN  IF first # <<>>
        THEN [urls |-> first, queried |-> <<TRUE>>]
        ELSE [urls |-> first \o texts(FALSE), queried |-> <<TRUE, FALSE>>]

\* SitemapCrawler._extract_sitemap_urls: the loop, then the filter on return.
ExtractSitemapUrls(root) == SelectSeq(SitemapUrlsLoop(root).urls, NonEmpty)

\* The inner loop without its "if not loc: continue".
RECURSIVE UrlRecords_NoSkip(_, _)
UrlRecords_NoSkip(elems, source) ==
    IF elems = <<>> THEN <<>>
    ELSE <<[url |-> ExtractText(Head(elems).loc),
            last_modified |-> ExtractText(Head(elems).lastmod),
            source_sitemap |-> source]>> \o UrlRecords_NoSkip(Tail(elems), source)

\* The body of the inner for loop of _extract_url_data over the elements one
\* xpath found: an element whose loc text is empty is skipped.
RECURSIVE UrlRecords(_, _)
UrlRecords(elems, source) ==
    IF elems = <<>> THEN <<>>
    ELSE
        LET url_elem == Head(elems)
            loc == ExtractText(url_elem.loc)
            rest == UrlRecords(Tail(elems), source)
        IN  IF loc = <<>> THEN rest
            ELSE <<[url |-> loc,
                    last_modified |-> ExtractText(url_elem.lastmod),
                    source_sitemap |-> source]>> \o rest

\* The loop without its break: the results of both queries, merged.
UrlDataLoop_NoBreak(root, source) ==
    [url_data |-> UrlRecords(FindUrlElems(root, TRUE), source)
                        \o UrlRecords(FindUrlElems(root, FALSE), source),
     queried |-> <<TRUE, FALSE>>]

\* The loop of _extract_url_data over the two xpaths, left by the break as soon
\* as url_data is a non-empty list: the list built and the xpaths queried.
UrlDataLoop(root, source) ==
    LET first == UrlRecords(FindUrlElems(root, TRUE), source)
    IN  IF first # <<>>
        THEN [url_data |-> first, queried |-> <<TRUE>>]
        ELSE [url_data |-> first \o UrlRecords(FindUrlElems(root, FALSE), source),
              queried |-> <<TRUE, FALSE>>]

\* SitemapCrawler._extract_url_data
ExtractUrlData(root, source) == UrlDataLoop(root, source).url_data

\* SitemapCrawler._make_absolute_url
MakeAbsoluteUrl(base, url) ==
    IF StartsWith(url, HTTP) THEN url ELSE UrlJoin(base, url)

\* _fetch_xml with the sleep placed after ET.fromstring: none on a parse error.
FetchXml_SleepAfterParse(url, resp) ==
    LET fetching == <<[msg |-> "Fetching", arg |-> url]>>
        failed == <<[msg |-> "Error processing", arg |-> url]>>
    IN  IF resp.kind = "ok"
        THEN [ok |-> TRUE, root |-> resp.doc, sleeps |-> 1, out |-> fetching]
        ELSE [ok |-> FALSE, root |-> <<>>, sleeps |-> 0, out |-> fetching \o failed]

\* SitemapCrawler._fetch_xml on a response of the server: the parsed tree or
\* None, the number of time.sleep(self.delay) calls made, and the lines printed.
\* A transport error (requests.RequestException: network error, timeout, non-2xx
\* status) is raised by get / raise_for_status, before the sleep; a parse error
\* (ET.ParseError) by ET.fromstring, after it.
FetchXml(url, resp) ==
    LET fetching == <<[msg |-> "Fetching", arg |-> url]>>
        failed == <<[msg |-> "Error processing", arg |-> url]>>
    IN  CASE resp.kind = "transport" ->
                [ok |-> FALSE, root |-> <<>>, sleeps |-> 0, out |-> fetching \o failed]
          [] resp.kind = "parse" ->
                [ok |-> FALSE, root |-> <<>>, sleeps |-> 1, out |-> fetching \o failed]
          [] resp.kind = "ok" ->
                [ok |-> TRUE, root |-> resp.doc, sleeps |-> 1, out |-> fetching]

\* An insertion that drops a record whose url is already there.
RECURSIVE InsertSorted_Dedup(_, _)
InsertSorted_Dedup(sorted, r) ==
    IF sorted = <<>> THEN <<r>>
    ELSE IF Head(sorted).url = r.url THEN sorted
    ELSE IF StrLess(r.url, Head(sorted).url) THEN <<r>> \o sorted
    ELSE <<Head(sorted)>> \o InsertSorted_Dedup(Tail(sorted), r)

\* An insertion before the records of the same url: a sort that is not stable.
RECURSIVE InsertSorted_BeforeEqual(_, _)
InsertSorted_BeforeEqual(sorted, r) ==
    IF sorted = <<>> THEN <<r>>
    ELSE IF ~StrLess(Head(sorted).url, r.url) THEN <<r>> \o sorted
    ELSE <<Head(sorted)>> \o InsertSorted_BeforeEqual(Tail(sorted), r)

\* sorted(url_data, key=lambda x: x['url']): a stable sort, ascending by url.
RECURSIVE InsertSorted(_, _)
InsertSorted(sorted, r) ==
    IF sorted = <<>> THEN <<r>>
    ELSE IF StrLess(r.url, Head(sorted).url) THEN <<r>> \o sorted
    ELSE <<Head(sorted)>> \o InsertSorted(Tail(sorted), r)

RECURSIVE SortedByUrl(_)
SortedByUrl(data) ==
    IF data = <<>> THEN <<>>
    ELSE InsertSorted(SortedByUrl(SubSeq(data, 1, Len(data) - 1)), data[Len(data)])

\* ------------------------------------------------------------------ inputs

\* The longest document a server returns, in <sitemap> and <url> elements.
MaxEntries == 2

\* "http://a/d/", " R/y ", " \n"
ABS_LOC == <<104, 116, 116, 112, 58, 47, 47, 97, 47, 100, 47>>
REL_LOC == <<32, 82, 47, 121, 32>>
BLANK == <<32, 10>>

\* " 2024 "
LASTMOD == <<32, 50, 48, 50, 52, 32>>

\* The <loc> of an element: absent, blank, a relative path in whitespace, an
\* absolute URL that ends in "/".
LocElems == {NoElem, Elem(BLANK), Elem(REL_LOC), Elem(ABS_LOC)}

Entries ==
    [tag : {"sitemap"}, ns : BOOLEAN, loc : LocElems, lastmod : {NoElem}]
        \cup [tag : {"url"}, ns : BOOLEAN, loc : LocElems, lastmod : {NoElem, Elem(LASTMOD)}]

\* The documents the extraction methods are applied to alone.
Docs == UNION {[1..n -> Entries] : n \in 0..MaxEntries}

\* The elements of the documents the servers of a crawl return: a namespaced
\* <sitemap> with a relative loc, one with an absolute loc that ends in "/", a
\* bare one with a blank loc; a namespaced <url> with an absolute loc and a
\* lastmod, a bare one with a relative loc.
CrawlEntries ==
    {[tag |-> "sitemap", ns |-> TRUE, loc |-> Elem(REL_LOC), lastmod |-> NoElem],
     [tag |-> "sitemap", ns |-> TRUE, loc |-> Elem(ABS_LOC), lastmod |-> NoElem],
     [tag |-> "sitemap", ns |-> FALSE, loc |-> Elem(BLANK), lastmod |-> NoElem],
     [tag |-> "url", ns |-> TRUE, loc |-> Elem(ABS_LOC), lastmod |-> Elem(LASTMOD)],
     [tag |-> "url", ns |-> FALSE, loc |-> Elem(REL_LOC), lastmod |-> NoElem]}

CrawlDocs == UNION {[1..n -> CrawlEntries] : n \in 0..MaxEntries}

\* What session.get(url) followed by ET.fromstring can come to during a crawl.
\* For a url without scheme, get raises requests.exceptions.MissingSchema, a
\* RequestException: a transport error whatever the servers do.
Responses(url) ==
    IF StartsWith(url, HTTP)
    THEN {[kind |-> "transport", doc |-> <<>>], [kind |-> "parse", doc |-> <<>>]}
            \cup {[kind |-> "ok", doc |-> d] : d \in CrawlDocs}
    ELSE {[kind |-> "transport", doc |-> <<>>]}

\* base_url as given to the constructor: "" (main's BASE_URL) and "http://a/".
BaseUrls == {<<>>, <<104, 116, 116, 112, 58, 47, 47, 97, 47>>}

\* The sitemap_index_url argument: main's "sitemap_index.xml", and "http://a/m.xml".
IndexUrls == {INDEX_SOURCE, <<104, 116, 116, 112, 58, 47, 47, 97, 47, 109, 46, 120, 109, 108>>}

\* ------------------------------------------------------------------ state

VARIABLES
    pc,             \* where main() is: "main", "loop", "save", "stats", "done"
    base_url,       \* self.base_url
    calls,          \* the calls of _fetch_xml so far: url, outcome, sleeps made
    index_entries,  \* how many <sitemap> elements the index document holds
    index_urls,     \* what _extract_sitemap_urls returned for the index document
    flat,           \* the index document was processed as a regular sitemap
    sitemap_urls,   \* crawl_sitemap_index's sitemap_urls
    children,       \* per iteration of the loop done: the child fetched and its yield
    listed,         \* the sitemap URLs that the child documents fetched list themselves
    all_url_data,   \* crawl_sitemap_index's all_url_data
    url_data,       \* main's url_data
    file,           \* the output file
    stdout,         \* the lines printed
    xroot,          \* the document the extraction methods are applied to alone
    xout            \* and what they returned

vars == <<pc, base_url, calls, index_entries, index_urls, flat, sitemap_urls, children, listed,
          all_url_data, url_data, file, stdout, xroot, xout>>

crawlVars == <<pc, base_url, calls, index_entries, index_urls, flat, sitemap_urls,
               children, listed, all_url_data, url_data, file, stdout>>

NoFile == [exists |-> FALSE, name |-> <<>>, header |-> <<>>, rows |-> <<>>]

NoOut == [op |-> "none", urls |-> <<>>, url_data |-> <<>>, queried |-> <<>>]

Line(m, a, k) == [msg |-> m, arg |-> a, n |-> k]

\* SitemapCrawler.__init__ and the first lines of main().
Init ==
    /\ pc = "main"
    /\ base_url \in {RStripSlash(b) : b \in BaseUrls}
    /\ calls = <<>>
    /\ index_entries = 0
    /\ index_urls = <<>>
    /\ flat = FALSE
    /\ sitemap_urls = <<>>
    /\ children = <<>>
    /\ listed = {}
    /\ all_url_data = <<>>
    /\ url_data = <<>>
    /\ file = NoFile
    /\ stdout = <<>>
    /\ xroot = <<>>
    /\ xout = NoOut

Call(url, resp, r) == [url |-> url, kind |-> resp.kind, sleeps |-> r.sleeps]

IsSitemap(e) == e.tag = "sitemap"

\* crawl_sitemap_index up to its loop: the fetch of the index, the return of []
\* when it failed, of the index's own records when it lists no sitemap.
CrawlIndex ==
    /\ pc = "main"
    /\ \E idx \in IndexUrls : \E resp \in Responses(MakeAbsoluteUrl(base_url, idx)) :
        LET abs == MakeAbsoluteUrl(base_url, idx)
            root == FetchXml(abs, resp)
            urls == ExtractSitemapUrls(root.root)
            data == ExtractUrlData(root.root, INDEX_SOURCE)
            printed == <<Line("Starting crawl from", abs, 0)>> \o root.out
        IN  /\ calls' = Append(calls, Call(abs, resp, root))
            /\ index_entries' = Len(SelectSeq(root.root, IsSitemap))
            /\ index_urls' = urls
            /\ IF ~root.ok
               THEN /\ pc' = "save"
                    /\ url_data' = <<>>
                    /\ stdout' = stdout \o printed
                    /\ UNCHANGED <<flat, sitemap_urls>>
               ELSE IF urls = <<>>
               THEN /\ pc' = "save"
                    /\ url_data' = data
                    /\ flat' = TRUE
                    /\ stdout' = stdout \o printed
                                    \o <<Line("Processing as regular sitemap", <<>>, 0)>>
                    /\ UNCHANGED sitemap_urls
               ELSE /\ pc' = "loop"
                    /\ sitemap_urls' = urls
                    /\ stdout' = stdout \o printed
                                    \o <<Line("Found sitemaps to process", <<>>, Len(urls))>>
                    /\ UNCHANGED <<flat, url_data>>
    /\ UNCHANGED <<base_url, children, listed, all_url_data, file, xroot, xout>>

\* A loop that a failed child ends.
MoreSitemaps_StopAtFailure ==
    /\ Len(children) < Len(sitemap_urls)
    /\ \A k \in DOMAIN children : children[k].ok

\* for sitemap_url in sitemap_urls: whether the loop has another iteration to run.
MoreSitemaps == Len(children) < Len(sitemap_urls)

\* all_url_data = url_data
Extend_Replace(all, data) == data

\* all_url_data.extend(url_data)
Extend(all, data) == all \o data

\* An iteration that queues the sitemaps a child lists to be fetched in turn.
ProcessSitemap_Recursive ==
    /\ pc = "loop"
    /\ MoreSitemaps
    /\ \E resp \in Responses(MakeAbsoluteUrl(base_url, sitemap_urls[Len(children) + 1])) :
        LET sitemap_url == sitemap_urls[Len(children) + 1]
            abs_url == MakeAbsoluteUrl(base_url, sitemap_url)
            source_name == LastSegment(abs_url)
            sitemap_root == FetchXml(abs_url, resp)
            data == ExtractUrlData(sitemap_root.root, source_name)
            nested == ExtractSitemapUrls(sitemap_root.root)
        IN  /\ calls' = Append(calls, Call(abs_url, resp, sitemap_root))
            /\ IF sitemap_root.ok
               THEN /\ all_url_data' = Extend(all_url_data, data)
                    /\ sitemap_urls' = sitemap_urls \o nested
                    /\ stdout' = stdout \o sitemap_root.out
                                    \o <<Line("Extracted URLs from", source_name, Len(data))>>
                    /\ children' = Append(children,
                            [url |-> abs_url, ok |-> TRUE, recs |-> data])
                    /\ listed' = listed \cup {MakeAbsoluteUrl(base_url, u) : u \in Range(nested)}
               ELSE /\ stdout' = stdout \o sitemap_root.out
                    /\ children' = Append(children,
                            [url |-> abs_url, ok |-> FALSE, recs |-> <<>>])
                    /\ UNCHANGED <<all_url_data, listed, sitemap_urls>>
    /\ UNCHANGED <<pc, base_url, index_entries, index_urls, flat, url_data, file, xroot, xout>>

\* One iteration of the loop of crawl_sitemap_index.
ProcessSitemap ==
    /\ pc = "loop"
    /\ MoreSitemaps
    /\ \E resp \in Responses(MakeAbsoluteUrl(base_url, sitemap_urls[Len(children) + 1])) :
        LET sitemap_url == sitemap_urls[Len(children) + 1]
            abs_url == MakeAbsoluteUrl(base_url, sitemap_url)
            source_name == LastSegment(abs_url)
            sitemap_root == FetchXml(abs_url, resp)
            data == ExtractUrlData(sitemap_root.root, source_name)
        IN  /\ calls' = Append(calls, Call(abs_url, resp, sitemap_root))
            /\ IF sitemap_root.ok
               THEN /\ all_url_data' = Extend(all_url_data, data)
                    /\ stdout' = stdout \o sitemap_root.out
                                    \o <<Line("Extracted URLs from", source_name, Len(data))>>
                    /\ children' = Append(children,
                            [url |-> abs_url, ok |-> TRUE, recs |-> data])
                    /\ listed' = listed \cup
                            {MakeAbsoluteUrl(base_url, u) :
                                u \in Range(ExtractSitemapUrls(sitemap_root.root))}
               ELSE /\ stdout' = stdout \o sitemap_root.out
                    /\ children' = Append(children,
                            [url |-> abs_url, ok |-> FALSE, recs |-> <<>>])
                    /\ UNCHANGED <<all_url_data, listed>>
    /\ UNCHANGED <<pc, base_url, index_entries, index_urls, flat, sitemap_urls, url_data,
                   file, xroot, xout>>

\* The return of crawl_sitemap_index after its loop, into main's url_data.
CrawlReturn ==
    /\ pc = "loop"
    /\ ~MoreSitemaps
    /\ url_data' = all_url_data
    /\ pc' = "save"
    /\ UNCHANGED <<base_url, calls, index_entries, index_urls, flat, sitemap_urls, children, listed,
                   all_url_data, file, stdout, xroot, xout>>

\* save_to_csv without its "if not url_data" guard: a file with the header alone.
SaveToCsv_NoGuard ==
    /\ pc = "save"
    /\ file' = [exists |-> TRUE, name |-> OUTPUT_FILE, header |-> fieldnames,
                rows |-> SortedByUrl(url_data)]
    /\ stdout' = Append(stdout, Line("Saved URLs to", OUTPUT_FILE, Len(url_data)))
    /\ pc' = "stats"
    /\ UNCHANGED <<base_url, calls, index_entries, index_urls, flat, sitemap_urls, children, listed,
                   all_url_data, url_data, xroot, xout>>

\* SitemapCrawler.save_to_csv(url_data, OUTPUT_FILE)
SaveToCsv ==
    /\ pc = "save"
    /\ IF url_data = <<>>
       THEN /\ stdout' = Append(stdout, Line("No URLs to save", <<>>, 0))
            /\ UNCHANGED file
       ELSE /\ file' = [exists |-> TRUE, name |-> OUTPUT_FILE, header |-> fieldnames,
                        rows |-> SortedByUrl(url_data)]
            /\ stdout' = Append(stdout, Line("Saved URLs to", OUTPUT_FILE, Len(url_data)))
    /\ pc' = "stats"
    /\ UNCHANGED <<base_url, calls, index_entries, index_urls, flat, sitemap_urls, children, listed,
                   all_url_data, url_data, xroot, xout>>

\* sorted() of a set of strings.
RECURSIVE SortedStrings(_)
SortedStrings(S) ==
    IF S = {} THEN <<>>
    ELSE LET m == CHOOSE x \in S : \A y \in S \ {x} : StrLess(x, y)
         IN  <<m>> \o SortedStrings(S \ {m})

\* The lines of one breakdown of print_statistics: the keys in sorted order,
\* each with the number of records that have it.
Breakdown(keys, title) ==
    LET names == SortedStrings({keys[k] : k \in DOMAIN keys})
    IN  [k \in 1..Len(names) |->
            Line(title, names[k], Cardinality({j \in DOMAIN keys : keys[j] = names[k]}))]

\* SitemapCrawler.print_statistics(url_data)
PrintStatistics ==
    /\ pc = "stats"
    /\ IF url_data = <<>>
       THEN UNCHANGED stdout
       ELSE stdout' = stdout
                \o <<Line("Crawling Statistics:", <<>>, 0),
                     Line("Total URLs", <<>>, Len(url_data)),
                     Line("Domain breakdown:", <<>>, 0)>>
                \o Breakdown([k \in DOMAIN url_data |-> NetLoc(url_data[k].url)], "domain")
                \o <<Line("Source sitemap breakdown:", <<>>, 0)>>
                \o Breakdown([k \in DOMAIN url_data |-> url_data[k].source_sitemap], "source")
    /\ pc' = "done"
    /\ UNCHANGED <<base_url, calls, index_entries, index_urls, flat, sitemap_urls, children, listed,
                   all_url_data, url_data, file, xroot, xout>>

Next ==
    \/ CrawlIndex
    \/ ProcessSitemap
    \/ CrawlReturn
    \/ SaveToCsv
    \/ PrintStatistics

Spec == Init /\ [][Next]_vars

\* ------------------------------------------------------------------
\* The extraction methods applied alone to any document.

\* The source labels given to _extract_url_data: "sitemap_index.xml" and "y".
Sources == {INDEX_SOURCE, LastSegment(Strip(REL_LOC))}

InitExtract ==
    /\ pc = "extract"
    /\ base_url = <<>>
    /\ calls = <<>>
    /\ index_entries = 0
    /\ index_urls = <<>>
    /\ flat = FALSE
    /\ sitemap_urls = <<>>
    /\ children = <<>>
    /\ listed = {}
    /\ all_url_data = <<>>
    /\ url_data = <<>>
    /\ file = NoFile
    /\ stdout = <<>>
    /\ xroot \in Docs
    /\ xout = NoOut

\* A call of _extract_sitemap_urls(xroot).
CallExtractSitemapUrls ==
    /\ pc = "extract"
    /\ xout' = [op |-> "sitemaps", urls |-> ExtractSitemapUrls(xroot), url_data |-> <<>>,
                queried |-> SitemapUrlsLoop(xroot).queried]
    /\ UNCHANGED <<crawlVars, xroot>>

\* A call of _extract_url_data(xroot, source).
CallExtractUrlData ==
    /\ pc = "extract"
    /\ \E source \in Sources :
        xout' = [op |-> "urls", urls |-> <<>>, url_data |-> ExtractUrlData(xroot, source),
                 queried |-> UrlDataLoop(xroot, source).queried]
    /\ UNCHANGED <<crawlVars, xroot>>

NextExtract ==
    \/ CallExtractSitemapUrls
    \/ CallExtractUrlData

SpecExtract == InitExtract /\ [][NextExtract]_vars

\* ------------------------------------------------------------------ properties

\* The elements of a tag and namespace that have a <loc> with text other than
\* whitespace, in document order.
Yielding(root, tag, ns) ==
    LET keep(e) == /\ e.tag = tag
                   /\ e.ns = ns
                   /\ e.loc.present
                   /\ Strip(e.loc.text) # <<>>
    IN  SelectSeq(root, keep)

LocTexts(elems) == [k \in 1..Len(elems) |-> Strip(elems[k].loc.text)]

Urls(data) == [k \in 1..Len(data) |-> data[k].url]

\* crawl_sitemap_index has returned.
Returned == pc \in {"save", "stats", "done"}

\* The concatenation of the record lists of a sequence of children.
RECURSIVE Flatten(_)
Flatten(cs) ==
    IF cs = <<>> THEN <<>> ELSE Head(cs).recs \o Flatten(Tail(cs))

\* label is what follows the last "/" of url (the whole of url when it has none).
IsFinalSegment(label, url) ==
    /\ SLASH \notin Range(label)
    /\ Len(label) <= Len(url)
    /\ SubSeq(url, Len(url) - Len(label) + 1, Len(url)) = label
    /\ \/ Len(label) = Len(url)
       \/ url[Len(url) - Len(label)] = SLASH

\* a <= b in the order of code points, stated without recursion.
CodePointLeq(a, b) ==
    LET n == IF Len(a) < Len(b) THEN Len(a) ELSE Len(b)
        diff == {i \in 1..n : a[i] # b[i]}
    IN  IF diff = {} THEN Len(a) <= Len(b) ELSE a[Min(diff)] < b[Min(diff)]

\* The records of data that have url u, in order.
WithUrl(data, u) ==
    LET same(r) == r.url = u
    IN  SelectSeq(data, same)

StatisticsLines ==
    {k \in DOMAIN stdout :
        stdout[k].msg \in {"Crawling Statistics:", "Total URLs", "Domain breakdown:",
                           "domain", "Source sitemap breakdown:", "source"}}

\* ---- C1

C2_Original == \A k \in DOMAIN calls : calls[k].sleeps = 1

\* C2: a call of _fetch_xml sleeps exactly once when the server answered with a
\* 2xx status, whether the body then parses or not, and not at all when the
\* request failed with a transport error.
C2_SleepAfterResponse ==
    \A k \in DOMAIN calls :
        calls[k].sleeps = IF calls[k].kind = "transport" THEN 0 ELSE 1

C2_Witness ==
    \E j, k \in DOMAIN calls :
        /\ calls[j].kind = "transport"
        /\ calls[j].sleeps = 0
        /\ calls[k].kind = "parse"
        /\ calls[k].sleeps = 1

\* ---- C3

\* C3: when the fetch of the index fails, with a transport or a parse error, no
\* other fetch is made, crawl_sitemap_index returns the empty list, save_to_csv
\* writes no file and prints "No URLs to save", print_statistics prints nothing,
\* and the run goes on to its end.
C3_RootFailure ==
    (calls # <<>> /\ calls[1].kind # "ok") =>
        /\ Len(calls) = 1
        /\ Returned
        /\ url_data = <<>>
        /\ all_url_data = <<>>
        /\ file = NoFile
        /\ StatisticsLines = {}
        /\ pc \in {"stats", "done"} => stdout[Len(stdout)].msg = "No URLs to save"
        /\ pc # "done" => ENABLED Next

C3_Witness ==
    /\ pc = "done"
    /\ calls[1].kind = "transport"

\* ---- C4

\* C4: each URL of the index is fetched exactly once, in order, whether or not
\* an earlier one failed; a child whose fetch failed yields no record; the
\* records gathered so far are at every moment, and the list returned is at the
\* end, the concatenation in index order of the records extracted from the
\* children whose fetch succeeded.
C4_ChildIsolation ==
    /\ all_url_data = Flatten(children)
    /\ \A k \in DOMAIN children :
        /\ calls[k + 1].url = MakeAbsoluteUrl(base_url, sitemap_urls[k])
        /\ children[k].ok = (calls[k + 1].kind = "ok")
        /\ ~children[k].ok => children[k].recs = <<>>
    /\ (Returned /\ sitemap_urls # <<>>) =>
        /\ Len(children) = Len(sitemap_urls)
        /\ Len(calls) = Len(sitemap_urls) + 1
        /\ url_data = Flatten(children)

C4_Witness ==
    /\ pc = "done"
    /\ Len(children) = 2
    /\ children[1].recs # <<>>
    /\ ~children[2].ok
    /\ url_data = children[1].recs

\* ---- C5

\* C5 as stated: every record that _extract_url_data returns has a url that is
\* non-empty and absolute (by the program's own test, it starts with "http").
C5_Original ==
    xout.op = "urls" =>
        \A k \in DOMAIN xout.url_data :
            /\ xout.url_data[k].url # <<>>
            /\ StartsWith(xout.url_data[k].url, HTTP)

\* C5: every record that _extract_url_data returns has a url that is non-empty
\* and is the text of the <loc> of a <url> element of the document with its
\* surrounding whitespace removed, and nothing else: a relative loc stays
\* relative.
C5_NonEmptyLocText ==
    xout.op = "urls" =>
        \A k \in DOMAIN xout.url_data :
            /\ xout.url_data[k].url # <<>>
            /\ \E j \in DOMAIN xroot :
                /\ xroot[j].tag = "url"
                /\ xroot[j].loc.present
                /\ Strip(xroot[j].loc.text) = xout.url_data[k].url

C5_Witness ==
    /\ xout.op = "urls"
    /\ \E k \in DOMAIN xout.url_data : ~StartsWith(xout.url_data[k].url, HTTP)

\* ---- C6

\* C6 as stated: the records of an index processed as a flat sitemap carry the
\* index's own filename; the records of a child carry the final segment of that
\* child's absolute URL, which is never empty.
C6_Original ==
    /\ flat => \A k \in DOMAIN url_data :
                    IsFinalSegment(url_data[k].source_sitemap, calls[1].url)
    /\ \A c \in DOMAIN children : \A k \in DOMAIN children[c].recs :
        /\ IsFinalSegment(children[c].recs[k].source_sitemap, children[c].url)
        /\ children[c].recs[k].source_sitemap # <<>>

\* C6: the records of an index processed as a flat sitemap carry the literal
\* "sitemap_index.xml", whatever the URL of the index; the records returned
\* otherwise are records of the children, and the records of a child carry what
\* follows the last "/" of that child's absolute URL, which may be empty.
C6_SourceLabel ==
    /\ flat => \A k \in DOMAIN url_data : url_data[k].source_sitemap = INDEX_SOURCE
    /\ ~flat => Range(url_data) \subseteq UNION {Range(children[c].recs) : c \in DOMAIN children}
    /\ \A c \in DOMAIN children : \A k \in DOMAIN children[c].recs :
        IsFinalSegment(children[c].recs[k].source_sitemap, children[c].url)

C6_Witness ==
    /\ pc = "done"
    /\ \E k \in DOMAIN url_data : url_data[k].source_sitemap = <<>>

\* ---- C7

\* Some element of the tag is in the sitemap namespace.
NamespacedMatch(root, tag) == \E j \in DOMAIN root : root[j].tag = tag /\ root[j].ns

\* The two queries never both contribute to the list returned.
OneQueryOnly ==
    /\ xout.op = "sitemaps" =>
        \E ns \in BOOLEAN : xout.urls = LocTexts(Yielding(xroot, "sitemap", ns))
    /\ xout.op = "urls" =>
        \E ns \in BOOLEAN : Urls(xout.url_data) = LocTexts(Yielding(xroot, "url", ns))

\* C7 as stated: in both extraction methods the non-namespaced query runs only
\* when the namespaced query matched no element, and the list returned never
\* holds results of both.
C7_Original ==
    /\ OneQueryOnly
    /\ xout.op = "sitemaps" =>
        (FALSE \in Range(xout.queried) =>
            ~\E j \in DOMAIN xroot :
                xroot[j].tag = "sitemap" /\ xroot[j].ns /\ xroot[j].loc.present)
    /\ xout.op = "urls" =>
        (FALSE \in Range(xout.queried) => ~NamespacedMatch(xroot, "url"))

\* C7: the non-namespaced query runs exactly when the namespaced query left the
\* list empty: in _extract_sitemap_urls when it matched no <loc>, in
\* _extract_url_data when it yielded no record, which includes the case where
\* it matched <url> elements that all lack a non-blank <loc>.  The list returned
\* holds the results of the namespaced query when there are any, those of the
\* non-namespaced query otherwise, never of both.
C7_FallbackOnEmptyList ==
    /\ OneQueryOnly
    /\ xout.op = "sitemaps" =>
        LET matched == \E j \in DOMAIN xroot :
                xroot[j].tag = "sitemap" /\ xroot[j].ns /\ xroot[j].loc.present
        IN  /\ (FALSE \in Range(xout.queried)) = ~matched
            /\ xout.urls = LocTexts(Yielding(xroot, "sitemap", matched))
    /\ xout.op = "urls" =>
        LET yielded == Yielding(xroot, "url", TRUE) # <<>>
        IN  /\ (FALSE \in Range(xout.queried)) = ~yielded
            /\ Urls(xout.url_data) = LocTexts(Yielding(xroot, "url", yielded))

C7_Witness ==
    /\ xout.op = "urls"
    /\ NamespacedMatch(xroot, "url")
    /\ FALSE \in Range(xout.queried)
    /\ xout.url_data # <<>>

\* ---- C8

\* C8 as stated: no two rows of the file written have the same url.
C8_Original ==
    file.exists =>
        \A i, j \in DOMAIN file.rows :
            i # j => file.rows[i].url # file.rows[j].url

\* C8: the file written has one row per record, duplicates included: a url has
\* as many rows as there are records with it.
C8_RowPerRecord ==
    file.exists =>
        /\ Len(file.rows) = Len(url_data)
        /\ \A k \in DOMAIN url_data :
            Len(WithUrl(file.rows, url_data[k].url)) = Len(WithUrl(url_data, url_data[k].url))

C8_Witness ==
    /\ file.exists
    /\ \E i, j \in DOMAIN file.rows :
        /\ i # j
        /\ file.rows[i].url = file.rows[j].url

\* ---- C9

C10_SortedStable ==
    pc \in {"stats", "done"} =>
        /\ url_data = <<>> => file = NoFile
        /\ url_data # <<>> =>
            /\ file.exists
            /\ Len(file.rows) = Len(url_data)
            /\ \A i, j \in DOMAIN file.rows :
                i < j => CodePointLeq(file.rows[i].url, file.rows[j].url)
            /\ \A k \in DOMAIN url_data :
                WithUrl(file.rows, url_data[k].url) = WithUrl(url_data, url_data[k].url)

C10_Witness ==
    /\ file.exists
    /\ file.rows # url_data

====
